---- MODULE Spec2Model ----
(***************************************************************************)
(* Model of src/index.jsx (AI slip extractor): the App component's state,  *)
(* the Firestore collection it reads and writes, and its asynchronous      *)
(* handlers (processFiles, removeImage, processSlipWithAI, the reset       *)
(* button, the onSnapshot listener).  Every action is one run of the       *)
(* JavaScript event loop: an event handler or the continuation of an       *)
(* await, executed up to the next await.                                   *)
(***************************************************************************)
EXTENDS Integers, Sequences, FiniteSets, TLC

\* ---------------------------------------------------------------- bounds
MaxImages == 2      \* number of ids crypto.randomUUID() can hand out
MaxFiles == 2       \* number of files in one drop / file selection
NumPayloads == 2    \* number of distinct extraction payloads the service returns

Ids == 1..MaxImages
Payloads == 1..NumPayloads
FileTypes == {"image", "other"}

\* ---------------------------------------------------------------- values
Null == 0                       \* extractedData: null (src line 151)
NoError == "none"               \* error === null

ErrNoImages == "noImages"       \* line 266
ErrPreflight == "preflight"     \* lines 121, 177, 270
ErrNotImage == "notImage"       \* line 129
ErrSave == "saveFailed"         \* line 158
ErrDelete == "deleteFailed"     \* line 187
ErrParse == "parse"             \* line 383
ErrMalformed == "malformed"     \* line 387
ErrApi == "api"                 \* line 391
ErrClear == "clearFailed"       \* line 1002
ErrInit == "initFailed"         \* line 69

\* What one extraction call can come back with (lines 356-367):
\*   network      fetch rejects (no connection, timeout), or the body of the
\*                response is not JSON and response.json() rejects
\*   status       non-2xx response whose body is a JSON error object
\*   noPayload    2xx response without candidates / content / parts
\*   badJson      parts[0].text is not JSON, or is JSON from which line 370
\*                cannot read an amount (an amount that is not a string,
\*                null or undefined)
\*   a payload    parts[0].text is a JSON object
Failures == {"network", "status", "noPayload", "badJson"}

VARIABLES
    db, userId, isAuthReady, mounted,       \* Firebase state (lines 32-35) and whether the mount effect ran
    store, usedIds, clock, snapPending,     \* Firestore collection, issued UUIDs, Date.now(), undelivered change
    selectedImages, extractedData,          \* lines 13-14
    loading, error,                         \* lines 15-16
    csvContentForPreview, showCsvPreview,   \* lines 18-19
    bpc, bImages, bExisting, bIdx,          \* processSlipWithAI: position, closure of selectedImages / extractedData, loop index
    updatedExtractedData, bExtracted,       \* line 280, line 371
    ipc, files, fIdx, hasError, uniqueId,   \* processFiles: position, argument, loop index, line 125, line 139
    imagesLeft,                             \* image files of the last call of processFiles for which no setDoc was issued (yet)
    rpc,                                    \* reset button: getDocs pending
    fetchCount, writeCount, imgOutcome,     \* per batch and image: calls of fetch / setDoc, what came back
    prevRun, seeded,                        \* there was an earlier batch; this batch started from its images and output
    cleared,                                \* the reset button was pressed, its getDocs did not fail, and no operation was started since
    fpc, arg, ret                           \* a call of one function of the component on its own: position, argument, return value

bvars == <<bpc, bImages, bExisting, bIdx, updatedExtractedData, bExtracted>>
ivars == <<ipc, files, fIdx, hasError, uniqueId, imagesLeft>>
gvars == <<fetchCount, writeCount, imgOutcome>>
fvars == <<fpc, arg, ret>>
vars == <<db, userId, isAuthReady, mounted, store, usedIds, clock, snapPending,
          selectedImages, extractedData, loading, error,
          csvContentForPreview, showCsvPreview, bvars, ivars, rpc, gvars, prevRun, seeded, cleared, fvars>>

\* ---------------------------------------------------------------- store
NoDoc == [exists |-> FALSE, asset |-> FALSE, timestamp |-> 0, extractedData |-> Null]

\* setDoc(ref, {id, dataUrl, timestamp, extractedData: null})  (lines 147-152)
setDocNew(st, id, ts) ==
    [st EXCEPT ![id] = [exists |-> TRUE, asset |-> TRUE, timestamp |-> ts, extractedData |-> Null]]

\* setDoc without { merge: true }: the document is replaced
setDocNoMerge(st, id, extracted) ==
    [st EXCEPT ![id] = [exists |-> TRUE, asset |-> FALSE, timestamp |-> 0, extractedData |-> extracted]]

\* setDoc(ref, {extractedData}, {merge: true})  (line 375): the other fields
\* of an existing document are kept; a missing document is created with the
\* extractedData field only.
setDocMerge(st, id, extracted) ==
    IF st[id].exists
    THEN [st EXCEPT ![id].extractedData = extracted]
    ELSE [st EXCEPT ![id] = [exists |-> TRUE, asset |-> FALSE, timestamp |-> 0, extractedData |-> extracted]]

\* deleteDoc(ref)  (lines 183, 999)
deleteDoc(st, id) == [st EXCEPT ![id] = NoDoc]

\* ---------------------------------------------------------------- helpers
\* Array.prototype.find: index of the first item of data with this imageId, 0 if none
RECURSIVE findFrom(_, _, _)
findFrom(data, id, i) ==
    IF i > Len(data) THEN 0
    ELSE IF data[i].imageId = id THEN i
    ELSE findFrom(data, id, i + 1)

\* find with the comparison on a field the items do not have: nothing matches
findByWrongKey(data, id) == 0

\* find that looks at the first item only
findFirstOnly(data, id) == IF Len(data) > 0 /\ data[1].imageId = id THEN 1 ELSE 0

find(data, id) == findFrom(data, id, 1)

\* unshift in the place of push
pushFront(arr, item) == <<item>> \o arr

\* Array.prototype.push
push(arr, item) == Append(arr, item)

\* Array.prototype.sort with comparator key(a) - key(b): stable insertion
RECURSIVE insertSorted(_, _, _)
insertSorted(sorted, x, kx) ==
    IF sorted = <<>> THEN <<[v |-> x, k |-> kx]>>
    ELSE LET last == sorted[Len(sorted)] IN
         IF last.k <= kx THEN Append(sorted, [v |-> x, k |-> kx])
         ELSE Append(insertSorted(SubSeq(sorted, 1, Len(sorted) - 1), x, kx), last)

RECURSIVE sortKeyed(_, _)
sortKeyed(seq, acc) ==
    IF seq = <<>> THEN acc
    ELSE sortKeyed(Tail(seq), insertSorted(acc, Head(seq).v, Head(seq).k))

\* the values in the order given, without the sort
sortByKeyNoSort(keyed) ==
    [i \in 1..Len(keyed) |-> keyed[i].v]

sortByKey(keyed) ==
    LET s == sortKeyed(keyed, <<>>) IN [i \in 1..Len(s) |-> s[i].v]

\* snapshot.forEach: the documents of the collection in document-id order
RECURSIVE docsFrom(_, _)
docsFrom(st, i) ==
    IF i > MaxImages THEN <<>>
    ELSE IF st[i].exists THEN <<i>> \o docsFrom(st, i + 1)
    ELSE docsFrom(st, i + 1)

\* lines 82-94: loadedImages
loadedImages(st) ==
    LET ds == SelectSeq(docsFrom(st, 1), LAMBDA d : st[d].asset)
    IN sortByKey([i \in 1..Len(ds) |->
                    [v |-> [id |-> ds[i], timestamp |-> st[ds[i]].timestamp],
                     k |-> st[ds[i]].timestamp]])

\* lines 82-99: loadedData
loadedData(st) ==
    LET ds == SelectSeq(docsFrom(st, 1), LAMBDA d : st[d].asset /\ st[d].extractedData # Null)
    IN sortByKey([i \in 1..Len(ds) |->
                    [v |-> [imageId |-> ds[i], data |-> st[ds[i]].extractedData],
                     k |-> st[ds[i]].timestamp]])

\* lines 211-248: header row followed by one row per item, in order
generateCsv(data) ==
    <<[imageId |-> 0, viewImageUrl |-> 0, data |-> 0]>> \o
    [i \in 1..Len(data) |->
        [imageId |-> data[i].imageId, viewImageUrl |-> data[i].imageId, data |-> data[i].data]]

ZeroCount == [i \in Ids |-> 0]
NoOutcome == [i \in Ids |-> "none"]

\* ---------------------------------------------------------------- Init
\* the component after construction
ComponentInit ==
    /\ db = FALSE /\ userId = FALSE /\ isAuthReady = FALSE /\ mounted = FALSE
    /\ store = [i \in Ids |-> NoDoc] /\ usedIds = {} /\ clock = 1 /\ snapPending = FALSE
    /\ selectedImages = <<>> /\ extractedData = <<>>
    /\ loading = FALSE /\ error = NoError
    /\ csvContentForPreview = <<>> /\ showCsvPreview = FALSE
    /\ bpc = "idle" /\ bImages = <<>> /\ bExisting = <<>> /\ bIdx = 1
    /\ updatedExtractedData = <<>> /\ bExtracted = Null
    /\ ipc = "idle" /\ files = <<>> /\ fIdx = 1 /\ hasError = FALSE /\ uniqueId = 0
    /\ imagesLeft = 0
    /\ rpc = "idle"
    /\ fetchCount = ZeroCount /\ writeCount = ZeroCount
    /\ imgOutcome = NoOutcome
    /\ prevRun = FALSE /\ seeded = FALSE /\ cleared = FALSE

Init ==
    /\ ComponentInit
    /\ fpc = "none" /\ arg = <<>> /\ ret = <<>>


\* ---------------------------------------------------------------- Firebase
\* lines 41-50: the mount effect created the app, Firestore and Auth handles
FirebaseInit ==
    /\ ~mounted
    /\ mounted' = TRUE /\ db' = TRUE
    /\ UNCHANGED <<fvars, userId, isAuthReady, store, usedIds, clock, snapPending, selectedImages,
                   extractedData, loading, error, csvContentForPreview, showCsvPreview,
                   bvars, ivars, rpc, gvars, prevRun, seeded, cleared>>

\* lines 67-70: initializeApp / getFirestore / getAuth threw
FirebaseInitFail ==
    /\ ~mounted
    /\ mounted' = TRUE /\ error' = ErrInit
    /\ UNCHANGED <<fvars, db, userId, isAuthReady, store, usedIds, clock, snapPending, selectedImages,
                   extractedData, loading, csvContentForPreview, showCsvPreview,
                   bvars, ivars, rpc, gvars, prevRun, seeded, cleared>>

\* lines 51-64 and 74-81: the auth callback sets userId and isAuthReady; the
\* second effect then subscribes, and the listener gets its first snapshot
AuthStateChanged ==
    /\ db /\ ~isAuthReady
    /\ userId' = TRUE /\ isAuthReady' = TRUE /\ snapPending' = TRUE
    /\ UNCHANGED <<fvars, db, mounted, store, usedIds, clock, selectedImages,
                   extractedData, loading, error, csvContentForPreview, showCsvPreview,
                   bvars, ivars, rpc, gvars, prevRun, seeded, cleared>>

\* lines 81-102: the onSnapshot listener
Snapshot ==
    /\ db /\ userId /\ isAuthReady /\ snapPending
    /\ snapPending' = FALSE
    /\ selectedImages' = loadedImages(store)
    /\ extractedData' = loadedData(store)
    /\ UNCHANGED <<fvars, db, userId, isAuthReady, mounted, store, usedIds, clock,
                   loading, error, csvContentForPreview, showCsvPreview,
                   bvars, ivars, rpc, gvars, prevRun, seeded, cleared>>

\* ---------------------------------------------------------------- processFiles
\* a file that is not an image ends the loop (break in the place of continue)
skipLoopBreak(fs, i, err, he) ==
    IF i > Len(fs) THEN [idx |-> i, error |-> err, hasError |-> he]
    ELSE IF fs[i] # "image" THEN [idx |-> Len(fs) + 1, error |-> ErrNotImage, hasError |-> TRUE]
    ELSE [idx |-> i, error |-> err, hasError |-> he]

\* lines 127-132: the files from position i that are skipped because they are
\* not images, up to the next image file or the end of the list
RECURSIVE skipLoop(_, _, _, _)
skipLoop(fs, i, err, he) ==
    IF i > Len(fs) THEN [idx |-> i, error |-> err, hasError |-> he]
    ELSE IF fs[i] # "image" THEN skipLoop(fs, i + 1, ErrNotImage, TRUE)
    ELSE [idx |-> i, error |-> err, hasError |-> he]

\* lines 127-170 from file i on, up to the next await: either the setDoc of
\* the next image file is in flight, or the run has ended (line 170);
\* left is the number of image files of the run without a setDoc so far
IngestContinue(fs, i, err, he, left) ==
    LET r == skipLoop(fs, i, err, he) IN
    /\ IF r.idx > Len(fs)
       THEN /\ ipc' = "idle" /\ error' = NoError
            /\ files' = <<>> /\ fIdx' = 1 /\ hasError' = FALSE /\ uniqueId' = 0
            /\ imagesLeft' = left
            /\ UNCHANGED usedIds
       ELSE /\ ipc' = "write" /\ error' = r.error
            /\ files' = fs /\ fIdx' = r.idx /\ hasError' = r.hasError
            /\ imagesLeft' = left - 1
            /\ \E id \in Ids \ usedIds : uniqueId' = id /\ usedIds' = usedIds \cup {id}

NumImageFiles(fs) == Cardinality({i \in 1..Len(fs) : fs[i] = "image"})

FileLists == UNION {[1..n -> FileTypes] : n \in 1..MaxFiles}

\* processFiles without the guard of lines 120-123
processFilesNoGuard ==
    /\ ipc = "idle"
    /\ \E fs \in FileLists :
        /\ NumImageFiles(fs) <= Cardinality(Ids \ usedIds)
        /\ IngestContinue(fs, 1, error, FALSE, NumImageFiles(fs))
        /\ cleared' = FALSE
    /\ UNCHANGED <<fvars, db, userId, isAuthReady, mounted, store, clock, snapPending, selectedImages,
                   extractedData, loading, csvContentForPreview, showCsvPreview,
                   bvars, rpc, gvars, prevRun, seeded>>

\* lines 113-123 / 203-208: a file selection or drop calls processFiles
processFiles ==
    /\ ipc = "idle"
    /\ \E fs \in FileLists :
        /\ NumImageFiles(fs) <= Cardinality(Ids \ usedIds)
        /\ IF ~db \/ ~userId
           THEN /\ error' = ErrPreflight
                /\ UNCHANGED <<ivars, usedIds, cleared>>
           ELSE /\ IngestContinue(fs, 1, error, FALSE, NumImageFiles(fs))
                /\ cleared' = FALSE
    /\ UNCHANGED <<fvars, db, userId, isAuthReady, mounted, store, clock, snapPending, selectedImages,
                   extractedData, loading, csvContentForPreview, showCsvPreview,
                   bvars, rpc, gvars, prevRun, seeded>>

\* lines 147-154: setDoc resolved; the delay(100) is pending
IngestWriteOk ==
    /\ ipc = "write"
    /\ store' = setDocNew(store, uniqueId, clock)
    /\ clock' = clock + 1
    /\ snapPending' = TRUE
    /\ ipc' = "delay"
    /\ UNCHANGED <<fvars, db, userId, isAuthReady, mounted, usedIds, selectedImages,
                   extractedData, loading, error, csvContentForPreview, showCsvPreview,
                   bvars, files, fIdx, hasError, uniqueId, imagesLeft, rpc, gvars, prevRun, seeded, cleared>>

\* lines 156-161: setDoc rejected
IngestWriteFail ==
    /\ ipc = "write"
    /\ IngestContinue(files, fIdx + 1, ErrSave, TRUE, imagesLeft)
    /\ UNCHANGED <<fvars, db, userId, isAuthReady, mounted, store, clock, snapPending, selectedImages,
                   extractedData, loading, csvContentForPreview, showCsvPreview,
                   bvars, rpc, gvars, prevRun, seeded, cleared>>

\* lines 154-161: the delay elapsed, the loop goes on
IngestDelayDone ==
    /\ ipc = "delay"
    /\ IngestContinue(files, fIdx + 1, error, hasError, imagesLeft)
    /\ UNCHANGED <<fvars, db, userId, isAuthReady, mounted, store, clock, snapPending, selectedImages,
                   extractedData, loading, csvContentForPreview, showCsvPreview,
                   bvars, rpc, gvars, prevRun, seeded, cleared>>

\* ---------------------------------------------------------------- removeImage
InSelected(id) == \E i \in 1..Len(selectedImages) : selectedImages[i].id = id

\* lines 175-184 (button of line 728): deleteDoc resolved
removeImage ==
    \E id \in Ids :
        /\ InSelected(id)
        /\ IF ~db \/ ~userId
           THEN /\ error' = ErrPreflight
                /\ UNCHANGED <<store, snapPending>>
           ELSE /\ store' = deleteDoc(store, id)
                /\ snapPending' = (snapPending \/ store[id].exists)
                /\ UNCHANGED error
        /\ UNCHANGED <<fvars, db, userId, isAuthReady, mounted, usedIds, clock, selectedImages,
                       extractedData, loading, csvContentForPreview, showCsvPreview,
                       bvars, ivars, rpc, gvars, prevRun, seeded>>
        /\ cleared' = FALSE

\* lines 185-188: deleteDoc rejected
removeImageFail ==
    \E id \in Ids :
        /\ InSelected(id) /\ db /\ userId
        /\ error' = ErrDelete
        /\ UNCHANGED <<fvars, db, userId, isAuthReady, mounted, store, usedIds, clock, snapPending,
                       selectedImages, extractedData, loading, csvContentForPreview,
                       showCsvPreview, bvars, ivars, rpc, gvars, prevRun, seeded>>
        /\ cleared' = FALSE

\* ---------------------------------------------------------------- processSlipWithAI
\* the loop without the dedup check of lines 285-290
dedupLoopNoSkip(images, existing, i, acc) == [idx |-> i, acc |-> acc]

\* the dedup check without the continue of line 289: the existing result is
\* pushed and the image is extracted again
dedupLoopNoContinue(images, existing, i, acc) ==
    IF i > Len(images) THEN [idx |-> i, acc |-> acc]
    ELSE LET e == find(existing, images[i].id) IN
         IF e # 0 /\ existing[e].data # Null
         THEN [idx |-> i, acc |-> push(acc, existing[e])]
         ELSE [idx |-> i, acc |-> acc]

\* lines 283-290: from image i on, the images that already have extracted
\* data are carried forward into acc; the result is the position of the
\* first image that has none (or the end of the array) and the list so far
RECURSIVE dedupLoop(_, _, _, _)
dedupLoop(images, existing, i, acc) ==
    IF i > Len(images) THEN [idx |-> i, acc |-> acc]
    ELSE LET e == find(existing, images[i].id) IN
         IF e # 0 /\ existing[e].data # Null
         THEN dedupLoop(images, existing, i + 1, push(acc, existing[e]))
         ELSE [idx |-> i, acc |-> acc]

\* the end of the loop without the setLoading(false) of line 402
BatchContinueKeepsLoading(images, existing, i, acc, fc, starting) ==
    LET r == dedupLoop(images, existing, i, acc) IN
    /\ bIdx' = r.idx /\ updatedExtractedData' = r.acc
    /\ IF r.idx > Len(images)
       THEN /\ bpc' = "idle" /\ fetchCount' = fc
            /\ extractedData' = r.acc
            /\ csvContentForPreview' = IF Len(r.acc) > 0 THEN generateCsv(r.acc)
                                       ELSE IF starting THEN <<>> ELSE csvContentForPreview
            /\ showCsvPreview' = IF Len(r.acc) > 0 THEN TRUE
                                 ELSE IF starting THEN FALSE ELSE showCsvPreview
            /\ loading' = (loading \/ starting)
            /\ prevRun' = TRUE
       ELSE /\ bpc' = "fetch" /\ fetchCount' = [fc EXCEPT ![images[r.idx].id] = @ + 1]
            /\ extractedData' = extractedData
            /\ csvContentForPreview' = IF starting THEN <<>> ELSE csvContentForPreview
            /\ showCsvPreview' = IF starting THEN FALSE ELSE showCsvPreview
            /\ loading' = IF starting THEN TRUE ELSE loading
            /\ prevRun' = prevRun

\* lines 283-402 from image i on, up to the next await: either the fetch of
\* the next image without extracted data is in flight (line 356), or the
\* loop has ended and lines 394-402 ran.  starting: called from the click
\* handler, after lines 274-278.
BatchContinue(images, existing, i, acc, fc, starting) ==
    LET r == dedupLoop(images, existing, i, acc) IN
    /\ bIdx' = r.idx /\ updatedExtractedData' = r.acc
    /\ IF r.idx > Len(images)
       THEN /\ bpc' = "idle" /\ fetchCount' = fc
            /\ extractedData' = r.acc
            /\ csvContentForPreview' = IF Len(r.acc) > 0 THEN generateCsv(r.acc)
                                       ELSE IF starting THEN <<>> ELSE csvContentForPreview
            /\ showCsvPreview' = IF Len(r.acc) > 0 THEN TRUE
                                 ELSE IF starting THEN FALSE ELSE showCsvPreview
            /\ loading' = FALSE
            /\ prevRun' = TRUE
       ELSE /\ bpc' = "fetch" /\ fetchCount' = [fc EXCEPT ![images[r.idx].id] = @ + 1]
            /\ extractedData' = extractedData
            /\ csvContentForPreview' = IF starting THEN <<>> ELSE csvContentForPreview
            /\ showCsvPreview' = IF starting THEN FALSE ELSE showCsvPreview
            /\ loading' = IF starting THEN TRUE ELSE loading
            /\ prevRun' = prevRun

\* the disabled attribute without the test of loading
ProcessEnabledIgnoringLoading == ~(Len(selectedImages) = 0 \/ ~isAuthReady)

\* line 751: the process button is enabled
ProcessEnabled == ~(Len(selectedImages) = 0 \/ loading \/ ~isAuthReady)

\* lines 264-290 (button of line 750)
processSlipWithAI ==
    /\ ProcessEnabled
    /\ IF Len(selectedImages) = 0
       THEN /\ error' = ErrNoImages
            /\ UNCHANGED <<bvars, gvars, extractedData, csvContentForPreview, showCsvPreview,
                           loading, prevRun, seeded, cleared>>
       ELSE IF ~db \/ ~userId
       THEN /\ error' = ErrPreflight
            /\ UNCHANGED <<bvars, gvars, extractedData, csvContentForPreview, showCsvPreview,
                           loading, prevRun, seeded, cleared>>
       ELSE /\ error' = NoError
            /\ bImages' = selectedImages /\ bExisting' = extractedData
            /\ bExtracted' = Null /\ cleared' = FALSE
            /\ writeCount' = ZeroCount /\ imgOutcome' = NoOutcome
            /\ seeded' = (prevRun /\ selectedImages = bImages /\ extractedData = updatedExtractedData)
            /\ BatchContinue(selectedImages, extractedData, 1, <<>>, ZeroCount, TRUE)
    /\ UNCHANGED <<fvars, db, userId, isAuthReady, mounted, store, usedIds, clock, snapPending,
                   selectedImages, ivars, rpc>>

\* the error message the code sets when the extraction call comes back with failure f
\*   lines 356-362 throw into the catch of line 389; line 364 fails into line 385;
\*   lines 369-370 throw into the catch of line 380
FailureError(f) ==
    CASE f = "network" -> ErrApi
      [] f \in {"status", "noPayload"} -> ErrMalformed
      [] f = "badJson" -> ErrParse

\* a failed extraction call that leaves the loop (no catch around the call)
BatchFetchFailedAbort ==
    /\ bpc = "fetch"
    /\ \E f \in Failures :
        LET id == bImages[bIdx].id IN
        /\ error' = FailureError(f)
        /\ imgOutcome' = [imgOutcome EXCEPT ![id] = f]
    /\ bIdx' = bIdx /\ updatedExtractedData' = updatedExtractedData
    /\ bpc' = "idle" /\ loading' = FALSE /\ prevRun' = TRUE
    /\ UNCHANGED <<fvars, db, userId, isAuthReady, mounted, store, usedIds, clock, snapPending,
                   selectedImages, extractedData, csvContentForPreview, showCsvPreview,
                   bImages, bExisting, bExtracted, ivars, rpc, fetchCount, writeCount, seeded, cleared>>

\* lines 356-367, 380-392: the extraction call failed or brought no usable payload
BatchFetchFailed ==
    /\ bpc = "fetch"
    /\ \E f \in Failures :
        LET id == bImages[bIdx].id IN
        /\ error' = FailureError(f)
        /\ imgOutcome' = [imgOutcome EXCEPT ![id] = f]
    /\ BatchContinue(bImages, bExisting, bIdx + 1, updatedExtractedData, fetchCount, FALSE)
    /\ UNCHANGED <<fvars, db, userId, isAuthReady, mounted, store, usedIds, clock, snapPending,
                   selectedImages, bImages, bExisting, bExtracted, ivars, rpc, writeCount, seeded, cleared>>

\* lines 356-375: the extraction call brought a payload; setDoc is in flight
BatchFetchOk ==
    /\ bpc = "fetch"
    /\ \E p \in Payloads : bExtracted' = p
    /\ bpc' = "write"
    /\ writeCount' = [writeCount EXCEPT ![bImages[bIdx].id] = @ + 1]
    /\ imgOutcome' = [imgOutcome EXCEPT ![bImages[bIdx].id] = "ok"]
    /\ UNCHANGED <<fvars, db, userId, isAuthReady, mounted, store, usedIds, clock, snapPending,
                   selectedImages, extractedData, loading, error, csvContentForPreview,
                   showCsvPreview, bImages, bExisting, bIdx, updatedExtractedData,
                   ivars, rpc, fetchCount, prevRun, seeded, cleared>>

\* lines 375-377: setDoc resolved; the delay(100) is pending
BatchWriteOk ==
    /\ bpc = "write"
    /\ store' = setDocMerge(store, bImages[bIdx].id, bExtracted)
    /\ snapPending' = TRUE
    /\ bpc' = "delay"
    /\ UNCHANGED <<fvars, db, userId, isAuthReady, mounted, usedIds, clock,
                   selectedImages, extractedData, loading, error, csvContentForPreview,
                   showCsvPreview, bImages, bExisting, bIdx, updatedExtractedData, bExtracted,
                   ivars, rpc, gvars, prevRun, seeded, cleared>>

\* lines 375, 380-384: setDoc rejected; the catch of the JSON parsing takes it
BatchWriteFail ==
    /\ bpc = "write"
    /\ error' = ErrParse
    /\ imgOutcome' = [imgOutcome EXCEPT ![bImages[bIdx].id] = "writeFail"]
    /\ bExtracted' = Null
    /\ BatchContinue(bImages, bExisting, bIdx + 1, updatedExtractedData, fetchCount, FALSE)
    /\ UNCHANGED <<fvars, db, userId, isAuthReady, mounted, store, usedIds, clock, snapPending,
                   selectedImages, bImages, bExisting, ivars, rpc, writeCount, seeded, cleared>>

\* lines 377-379: the delay elapsed; the result is pushed and the loop goes on
BatchDelayDone ==
    /\ bpc = "delay"
    /\ BatchContinue(bImages, bExisting, bIdx + 1,
                     push(updatedExtractedData, [imageId |-> bImages[bIdx].id, data |-> bExtracted]),
                     fetchCount, FALSE)
    /\ bExtracted' = Null
    /\ UNCHANGED <<fvars, db, userId, isAuthReady, mounted, store, usedIds, clock, snapPending,
                   selectedImages, error, bImages, bExisting, ivars, rpc,
                   writeCount, imgOutcome, seeded, cleared>>

\* ---------------------------------------------------------------- reset button
\* lines 984-997 (rendered when extractedData.length > 0, line 768)
Reset ==
    /\ Len(extractedData) > 0 /\ rpc = "idle"
    /\ selectedImages' = <<>> /\ extractedData' = <<>>
    /\ error' = NoError
    /\ csvContentForPreview' = <<>> /\ showCsvPreview' = FALSE
    /\ rpc' = IF db /\ userId THEN "getDocs" ELSE "idle"
    /\ UNCHANGED <<fvars, db, userId, isAuthReady, mounted, store, usedIds, clock, snapPending,
                   loading, bvars, ivars, gvars, prevRun, seeded>>
    /\ cleared' = (db /\ userId)

\* lines 997-1000: getDocs resolved; deleteDoc is called on every document
ResetGetDocsOk ==
    /\ rpc = "getDocs"
    /\ store' = [i \in Ids |-> NoDoc]
    /\ snapPending' = (snapPending \/ \E i \in Ids : store[i].exists)
    /\ rpc' = "idle"
    /\ UNCHANGED <<fvars, db, userId, isAuthReady, mounted, usedIds, clock,
                   selectedImages, extractedData, loading, error, csvContentForPreview,
                   showCsvPreview, bvars, ivars, gvars, prevRun, seeded, cleared>>

\* lines 1001-1004: getDocs rejected
ResetGetDocsFail ==
    /\ rpc = "getDocs"
    /\ error' = ErrClear
    /\ rpc' = "idle"
    /\ UNCHANGED <<fvars, db, userId, isAuthReady, mounted, store, usedIds, clock, snapPending,
                   selectedImages, extractedData, loading, csvContentForPreview,
                   showCsvPreview, bvars, ivars, gvars, prevRun, seeded>>
    /\ cleared' = FALSE

\* ---------------------------------------------------------------- CSV preview
\* line 1012 (rendered when extractedData.length > 0, line 768)
OpenPreview ==
    /\ Len(extractedData) > 0 /\ ~showCsvPreview
    /\ showCsvPreview' = TRUE
    /\ UNCHANGED <<fvars, db, userId, isAuthReady, mounted, store, usedIds, clock, snapPending,
                   selectedImages, extractedData, loading, error, csvContentForPreview,
                   bvars, ivars, rpc, gvars, prevRun, seeded, cleared>>

\* lines 1039 and 251-261: the modal's close button, and handleDownloadCsv,
\* which downloads csvContentForPreview and closes the modal
ClosePreview ==
    /\ showCsvPreview
    /\ showCsvPreview' = FALSE
    /\ UNCHANGED <<fvars, db, userId, isAuthReady, mounted, store, usedIds, clock, snapPending,
                   selectedImages, extractedData, loading, error, csvContentForPreview,
                   bvars, ivars, rpc, gvars, prevRun, seeded, cleared>>

\* ---------------------------------------------------------------- specification
Next ==
    \/ FirebaseInit \/ FirebaseInitFail \/ AuthStateChanged \/ Snapshot
    \/ processFiles \/ IngestWriteOk \/ IngestWriteFail \/ IngestDelayDone
    \/ removeImage \/ removeImageFail
    \/ processSlipWithAI \/ BatchFetchFailed \/ BatchFetchOk
    \/ BatchWriteOk \/ BatchWriteFail \/ BatchDelayDone
    \/ Reset \/ ResetGetDocsOk \/ ResetGetDocsFail
    \/ OpenPreview \/ ClosePreview

Spec == Init /\ [][Next]_vars


\* Every extraction call and every store write of a batch comes back, with
\* success or with failure, and the timer of delay(100) fires: the event
\* loop runs a continuation that is ready.
BatchFairness ==
    /\ WF_vars(BatchFetchOk \/ BatchFetchFailed)
    /\ WF_vars(BatchWriteOk \/ BatchWriteFail)
    /\ WF_vars(BatchDelayDone)

SpecLive == Init /\ [][Next]_vars /\ BatchFairness


\* ================================================================ functions
\* The functions of the component that compute a value from their argument
\* alone, each called on its own: the initial state holds the argument, the
\* one step of the call stores the return value.
cvars == <<db, userId, isAuthReady, mounted, store, usedIds, clock, snapPending,
           selectedImages, extractedData, loading, error,
           csvContentForPreview, showCsvPreview, bvars, ivars, rpc, gvars, prevRun, seeded, cleared>>

\* Array.prototype.filter on a string: the characters of str that are in keep
RECURSIVE keepChars(_, _)
keepChars(str, keep) ==
    IF str = <<>> THEN <<>>
    ELSE IF Head(str) \in keep THEN <<Head(str)>> \o keepChars(Tail(str), keep)
    ELSE keepChars(Tail(str), keep)

RECURSIVE Pow10(_)
Pow10(n) == IF n = 0 THEN 1 ELSE 10 * Pow10(n - 1)

\* ---------------------------------------------------------------- amount
MaxAmountLen == 4
AmountChars == {"0", "1", ".", "-", ",", "B"}

DigitValue ==
    ("0" :> 0) @@ ("1" :> 1) @@ ("2" :> 2) @@ ("3" :> 3) @@ ("4" :> 4) @@
    ("5" :> 5) @@ ("6" :> 6) @@ ("7" :> 7) @@ ("8" :> 8) @@ ("9" :> 9)
DecimalDigits == DOMAIN DigitValue

\* the character class [0-9.-] of the regular expression of line 370
AmountClass == DecimalDigits \cup {".", "-"}

\* the strings over AmountChars of length up to n
RECURSIVE StringsUpTo(_, _)
StringsUpTo(chars, n) ==
    IF n = 0 THEN {<<>>}
    ELSE LET shorter == StringsUpTo(chars, n - 1) IN
         shorter \cup {Append(t, c) : t \in shorter, c \in chars}

\* amounts as the extraction service writes them
AmountSamples ==
    { <<"1", ",", "2", "3", "4", ".", "5", "0", " ", "T", "H", "B">>,
      <<"-", "5", "0", ".", "0", "0">>,
      <<"a", "b", "c">>,
      <<"1", ".", "2", ".", "3">> }

\* parsedJson.amount: a string, undefined (the key is absent, or null), or a
\* JSON number
AmountValues ==
    {[kind |-> "string", text |-> t] : t \in StringsUpTo(AmountChars, MaxAmountLen) \cup AmountSamples}
    \cup {[kind |-> "undefined", text |-> <<>>], [kind |-> "number", text |-> <<>>]}

\* the length of the run of decimal digits of str that starts at position i
RECURSIVE digitRun(_, _)
digitRun(str, i) ==
    IF i > Len(str) \/ str[i] \notin DecimalDigits THEN 0
    ELSE 1 + digitRun(str, i + 1)

\* the number the digits str[i], ..., str[i + n - 1] write
RECURSIVE digitsValue(_, _, _)
digitsValue(str, i, n) ==
    IF n = 0 THEN 0
    ELSE 10 * digitsValue(str, i, n - 1) + DigitValue[str[i + n - 1]]

\* a number is its sign and its absolute value in units of 10^-FractionDigits,
\* which is exact for the texts of AmountValues
FractionDigits == MaxAmountLen
NaN == [threw |-> FALSE, nan |-> TRUE, neg |-> FALSE, scaled |-> 0]
TypeError == [threw |-> TRUE, nan |-> FALSE, neg |-> FALSE, scaled |-> 0]
Number(neg, scaled) == [threw |-> FALSE, nan |-> FALSE, neg |-> neg, scaled |-> scaled]

\* parseFloat on a string without white space, "+", "e" and "Infinity": the
\* longest prefix that is a decimal literal ("-"? digits ("." digits?)? or
\* "-"? "." digits), NaN when there is none
parseFloat(str) ==
    LET neg == Len(str) > 0 /\ str[1] = "-"
        i == IF neg THEN 2 ELSE 1
        n == digitRun(str, i)
        dot == i + n <= Len(str) /\ str[i + n] = "."
        m == IF dot THEN digitRun(str, i + n + 1) ELSE 0
    IN IF n = 0 /\ m = 0 THEN NaN
       ELSE Number(neg, digitsValue(str, i, n) * Pow10(FractionDigits)
                        + digitsValue(str, i + n + 1, m) * Pow10(FractionDigits - m))

\* line 370: parseFloat(parsedJson.amount?.replace(/[^0-9.-]+/g, "") || '0')
parseAmount(amount) ==
    IF amount.kind = "number" THEN TypeError
    ELSE LET replaced == IF amount.kind = "undefined" THEN <<>>
                         ELSE keepChars(amount.text, AmountClass)
         IN parseFloat(IF replaced = <<>> THEN <<"0">> ELSE replaced)

InitAmount ==
    /\ ComponentInit
    /\ fpc = "ready" /\ arg \in AmountValues /\ ret = NaN

ParseAmountCall ==
    /\ fpc = "ready"
    /\ fpc' = "done" /\ ret' = parseAmount(arg)
    /\ UNCHANGED <<arg, cvars>>

NextAmount == ParseAmountCall

SpecAmount == InitAmount /\ [][NextAmount]_vars

\* ---------------------------------------------------------------- export
MaxFieldLen == 2
DQ == "\""
LF == "\n"
CsvChars == {"a", ",", DQ, LF}

\* the keys of item.data that generateCsv reads, in the order of lines 233-243
DataFields ==
    <<"senderName", "recipientName", "amount", "transactionDate", "transactionTime",
      "transactionId", "senderBankName", "senderBankAccountNumber",
      "recipientBankName", "recipientBankAccountNumber", "country">>
DataFieldSet == {DataFields[k] : k \in 1..Len(DataFields)}

\* a value of item.data: a string, or absent (undefined, null)
Absent == [present |-> FALSE, text |-> <<>>]
Text(t) == [present |-> TRUE, text |-> t]

\* x || '': '' for an absent value and for the empty string
orEmpty(x) == IF x.present /\ x.text # <<>> THEN x.text ELSE <<>>

\* a result whose field number k is v, whose next field is w, the others absent
ResultWith(id, k, v, w) ==
    [imageId |-> id,
     data |-> [f \in DataFieldSet |->
                 IF f = DataFields[k] THEN v
                 ELSE IF f = DataFields[(k % Len(DataFields)) + 1] THEN w
                 ELSE Absent]]

CsvTails ==
    { <<>>,
      <<ResultWith(<<"i", "2">>, 1, Text(<<"a">>), Absent)>>,
      <<ResultWith(<<"i", "2">>, 2, Text(<<DQ, ",">>), Text(<<LF>>))>> }

\* result sequences: a first result with one field over all short texts, its
\* neighbour absent or a delimiter, followed by none or one further result
CsvInputs ==
    { <<ResultWith(<<"i", "1">>, k, Text(v), w)>> \o tl :
        k \in 1..Len(DataFields),
        v \in StringsUpTo(CsvChars, MaxFieldLen),
        w \in {Absent, Text(<<DQ>>), Text(<<",">>)},
        tl \in CsvTails }

\* lines 213-215, 229: the viewer URL of an image (stand-ins for the page
\* URL, the app id and the user id, which hold no quote, comma or line break)
viewerUrlBase == <<"h", "/", "v">>
viewImageUrl(imageId) ==
    viewerUrlBase \o <<"?", "i", "=">> \o imageId \o <<"&", "a", "=", "d">> \o <<"&", "u", "=", "U">>

\* lines 218-222: the thirteen column labels (stand-ins, one per label)
headers ==
    <<<<"I", "D">>, <<"U", "R", "L">>, <<"h", "1">>, <<"h", "2">>, <<"h", "3">>, <<"h", "4">>,
      <<"h", "5">>, <<"h", "6">>, <<"h", "7">>, <<"h", "8">>, <<"h", "9">>, <<"h", "A">>, <<"h", "B">>>>

\* Array.prototype.join
RECURSIVE join(_, _)
join(parts, sep) ==
    IF parts = <<>> THEN <<>>
    ELSE IF Len(parts) = 1 THEN parts[1]
    ELSE parts[1] \o <<sep>> \o join(Tail(parts), sep)

\* String(field).replace(/"/g, '""')
RECURSIVE doubleQuotes(_)
doubleQuotes(str) ==
    IF str = <<>> THEN <<>>
    ELSE (IF Head(str) = DQ THEN <<DQ, DQ>> ELSE <<Head(str)>>) \o doubleQuotes(Tail(str))

\* the field between quotes, its quotes left single
quoteFieldNoDoubling(field) ==
    <<DQ>> \o field \o <<DQ>>

\* line 244: `"${String(field).replace(/"/g, '""')}"`
quoteField(field) ==
    <<DQ>> \o doubleQuotes(field) \o <<DQ>>

\* lines 228-244: the row of one result
csvRow(item) ==
    LET row == << orEmpty(Text(item.imageId)),
                  viewImageUrl(item.imageId),
                  orEmpty(item.data.senderName),
                  orEmpty(item.data.recipientName),
                  orEmpty(item.data.amount),
                  orEmpty(item.data.transactionDate),
                  orEmpty(item.data.transactionTime),
                  orEmpty(item.data.transactionId),
                  orEmpty(item.data.senderBankName),
                  orEmpty(item.data.senderBankAccountNumber),
                  orEmpty(item.data.recipientBankName),
                  orEmpty(item.data.recipientBankAccountNumber),
                  orEmpty(item.data.country) >>
    IN join([k \in 1..Len(row) |-> quoteField(row[k])], ",")

\* generateCsv as text: the header line, then one line per result
generateCsvText(data) ==
    LET csvRows == <<join(headers, ",")>> \o [k \in 1..Len(data) |-> csvRow(data[k])]
    IN join(csvRows, LF)

InitCsv ==
    /\ ComponentInit
    /\ fpc = "ready" /\ arg \in CsvInputs /\ ret = <<>>

GenerateCsvCall ==
    /\ fpc = "ready"
    /\ fpc' = "done" /\ ret' = generateCsvText(arg)
    /\ UNCHANGED <<arg, cvars>>

NextCsv == GenerateCsvCall

SpecCsv == InitCsv /\ [][NextCsv]_vars

\* ---------------------------------------------------------------- objects
\* A plain object used as a map (const m = {}): its own string keys with
\* their values, as a sequence of [key, value] in order of creation.  The
\* keys inherited from Object.prototype ("constructor", ...) are no field
\* value of the inputs below.

\* m[key], undefined being Null
RECURSIVE getProperty(_, _)
getProperty(m, key) ==
    IF m = <<>> THEN Null
    ELSE IF Head(m).key = key THEN Head(m).value
    ELSE getProperty(Tail(m), key)

hasProperty(m, key) == \E k \in 1..Len(m) : m[k].key = key

\* m[key] = value
setProperty(m, key, value) ==
    IF hasProperty(m, key)
    THEN [k \in 1..Len(m) |-> IF m[k].key = key THEN [key |-> key, value |-> value] ELSE m[k]]
    ELSE Append(m, [key |-> key, value |-> value])

\* the digits of 2^32 - 2, the greatest array index
MaxArrayIndex == <<"4", "2", "9", "4", "9", "6", "7", "2", "9", "4">>

\* a and b are digit texts of one length: a is before b, digit by digit
RECURSIVE digitsLess(_, _)
digitsLess(a, b) ==
    IF a = <<>> THEN FALSE
    ELSE IF DigitValue[Head(a)] # DigitValue[Head(b)] THEN DigitValue[Head(a)] < DigitValue[Head(b)]
    ELSE digitsLess(Tail(a), Tail(b))

\* numeric order of canonical numeric texts
indexLess(a, b) == Len(a) < Len(b) \/ (Len(a) = Len(b) /\ digitsLess(a, b))

\* the key is an array index: the canonical decimal text of an integer of
\* 0 .. 2^32 - 2
isArrayIndex(key) ==
    /\ Len(key) > 0
    /\ \A k \in 1..Len(key) : key[k] \in DecimalDigits
    /\ (Len(key) > 1 => key[1] # "0")
    /\ ~indexLess(MaxArrayIndex, key)

\* insertion of an index key into index keys in ascending order
RECURSIVE insertIndex(_, _)
insertIndex(sorted, key) ==
    IF sorted = <<>> THEN <<key>>
    ELSE IF indexLess(key, Head(sorted)) THEN <<key>> \o sorted
    ELSE <<Head(sorted)>> \o insertIndex(Tail(sorted), key)

RECURSIVE sortIndexKeys(_, _)
sortIndexKeys(keys, acc) ==
    IF keys = <<>> THEN acc
    ELSE sortIndexKeys(Tail(keys), insertIndex(acc, Head(keys)))

\* Object.keys (OrdinaryOwnPropertyKeys): the array-index keys in ascending
\* numeric order, then the other keys in order of creation
objectKeys(m) ==
    LET keys == [k \in 1..Len(m) |-> m[k].key] IN
    sortIndexKeys(SelectSeq(keys, isArrayIndex), <<>>)
    \o SelectSeq(keys, LAMBDA key : ~isArrayIndex(key))

\* ---------------------------------------------------------------- results
\* a result as the aggregations read it: the four fields of item.data they use
ResultOf(date, acc, bank, amount) ==
    [data |-> [transactionDate |-> date, recipientBankAccountNumber |-> acc,
               recipientBankName |-> bank, parsedAmount |-> amount]]

\* sequences of length up to n over the set S
RECURSIVE SeqsUpTo(_, _)
SeqsUpTo(S, n) ==
    IF n = 0 THEN {<<>>}
    ELSE LET shorter == SeqsUpTo(S, n - 1) IN
         shorter \cup {Append(t, x) : t \in shorter, x \in S}

\* a field value is truthy: a string that is not empty
truthy(x) == x.present /\ x.text # <<>>

\* ---------------------------------------------------------------- daily frequency
MaxDates == 3
MaxDateLen == 2
DateChars == {"1", "2", "-"}
DateSamples ==
    { <<"2", "0", "2", "4", "-", "0", "1", "-", "0", "1">>,
      <<"2", "0", "2", "4", "-", "0", "1", "-", "0", "2">>,
      <<"2", "0", "2", "4", "0", "1", "0", "1">>,
      <<"2", "0", "2", "4", "0", "1", "0", "2">> }
DateValues ==
    {Absent} \cup {Text(t) : t \in StringsUpTo(DateChars, MaxDateLen)}
DateInputs ==
    {[k \in 1..Len(ds) |-> ResultOf(ds[k], Absent, Absent, NaN)] : ds \in SeqsUpTo(DateValues, MaxDates)}
    \cup {[k \in 1..Len(ds) |-> ResultOf(Text(ds[k]), Absent, Absent, NaN)] : ds \in SeqsUpTo(DateSamples, MaxDates)}

\* lines 558-563: the forEach over extractedData from its item number i
RECURSIVE countDates(_, _, _)
countDates(data, i, frequencyMap) ==
    IF i > Len(data) THEN frequencyMap
    ELSE LET date == data[i].data.transactionDate IN
         IF truthy(date)
         THEN LET old == getProperty(frequencyMap, date.text) IN
              countDates(data, i + 1,
                         setProperty(frequencyMap, date.text, (IF old = Null THEN 0 ELSE old) + 1))
         ELSE countDates(data, i + 1, frequencyMap)

\* lines 556-573: dailyFrequencyData
dailyFrequencyData(data) ==
    LET frequencyMap == countDates(data, 1, <<>>)
        keys == objectKeys(frequencyMap)
        dataArray == [k \in 1..Len(keys) |->
                        [date |-> keys[k], count |-> getProperty(frequencyMap, keys[k])]]
    IN sortByKey([k \in 1..Len(dataArray) |-> [v |-> dataArray[k], k |-> 0 - dataArray[k].count]])

InitDaily ==
    /\ ComponentInit
    /\ fpc = "ready" /\ arg \in DateInputs /\ ret = <<>>

DailyFrequencyCall ==
    /\ fpc = "ready"
    /\ fpc' = "done" /\ ret' = dailyFrequencyData(arg)
    /\ UNCHANGED <<arg, cvars>>

NextDaily == DailyFrequencyCall

SpecDaily == InitDaily /\ [][NextDaily]_vars

\* ---------------------------------------------------------------- top accounts
TopLimit == 5
MaxTopResults == 2
MaxPerAccount == 2

\* recipient account numbers: plain digits (array-index keys of the map)
\* and texts with other characters
AccountSamples ==
    <<<<"7">>, <<"3", "-">>, <<"1", "2">>, <<"x", "1">>, <<"5">>, <<"9", "-">>, <<"4">>>>
BankTexts == {<<"K">>, <<"S">>}

\* values of parsedAmount: 1, 10, and NaN
ParsedAmounts ==
    {parseAmount([kind |-> "string", text |-> t]) : t \in {<<"1">>, <<"1", "0">>, <<".">>}}

\* the results of the accounts whose number of transfers is at least round
roundOf(times, round) ==
    LET chosen == SelectSeq([k \in 1..Len(AccountSamples) |-> k], LAMBDA k : times[k] >= round)
    IN [k \in 1..Len(chosen) |->
            ResultOf(Absent, Text(AccountSamples[chosen[k]]), Absent, Number(FALSE, 0))]

RECURSIVE roundsFrom(_, _)
roundsFrom(times, round) ==
    IF round > MaxPerAccount THEN <<>>
    ELSE roundOf(times, round) \o roundsFrom(times, round + 1)

\* many accounts: every account of AccountSamples transferred to 0 to
\* MaxPerAccount times
ManyAccountInputs ==
    {roundsFrom(times, 1) : times \in [1..Len(AccountSamples) -> 0..MaxPerAccount]}

\* few accounts: short sequences over all combinations of account number,
\* bank name and amount
FewAccountInputs ==
    SeqsUpTo({ResultOf(Absent, acc, bank, amount) :
                acc \in {Absent, Text(<<"2">>), Text(<<"1">>)},
                bank \in {Absent, Text(<<>>)} \cup {Text(b) : b \in BankTexts},
                amount \in ParsedAmounts},
             MaxTopResults)

TopInputs == ManyAccountInputs \cup FewAccountInputs

\* the number a parseFloat result stands for, signed, in units of 10^-FractionDigits
numberValue(r) == IF r.neg THEN 0 - r.scaled ELSE r.scaled

\* x || 0 on a number: 0 for NaN and for 0
orZero(x) == IF x.nan \/ x.scaled = 0 THEN 0 ELSE numberValue(x)

\* the bank name of the entry becomes the last non-empty name
lastBankName(bankName, bank) ==
    IF bank # <<>> THEN bank ELSE bankName

\* lines 593-595: if (!accountStatsMap[acc].bankName && bank) bankName = bank
keepBankName(bankName, bank) ==
    IF bankName = <<>> /\ bank # <<>> THEN bank ELSE bankName

\* lines 579-597: the forEach over extractedData from its item number i
RECURSIVE collectAccounts(_, _, _)
collectAccounts(data, i, accountStatsMap) ==
    IF i > Len(data) THEN accountStatsMap
    ELSE IF ~truthy(data[i].data.recipientBankAccountNumber)
         THEN collectAccounts(data, i + 1, accountStatsMap)
    ELSE LET acc == data[i].data.recipientBankAccountNumber.text
             amount == orZero(data[i].data.parsedAmount)
             bank == orEmpty(data[i].data.recipientBankName)
             old == IF hasProperty(accountStatsMap, acc) THEN getProperty(accountStatsMap, acc)
                    ELSE [count |-> 0, totalAmount |-> 0, bankName |-> bank]
             new == [count |-> old.count + 1,
                     totalAmount |-> old.totalAmount + amount,
                     bankName |-> keepBankName(old.bankName, bank)]
         IN collectAccounts(data, i + 1, setProperty(accountStatsMap, acc, new))

\* the whole array in the place of its slice
sliceAll(arr, start, end) == arr

\* Array.prototype.slice(start, end), 0-based, end exclusive
slice(arr, start, end) ==
    SubSeq(arr, start + 1, IF end < Len(arr) THEN end ELSE Len(arr))

\* lines 576-611: topRecipientAccountsData
topRecipientAccountsData(data) ==
    LET accountStatsMap == collectAccounts(data, 1, <<>>)
        keys == objectKeys(accountStatsMap)
        mapped == [k \in 1..Len(keys) |->
                     LET stats == getProperty(accountStatsMap, keys[k]) IN
                     [accountNumber |-> keys[k],
                      transactionCount |-> stats.count,
                      totalAmountTransferred |-> stats.totalAmount,
                      bankName |-> IF stats.bankName = <<>> THEN <<"-">> ELSE stats.bankName]]
        sorted == sortByKey([k \in 1..Len(mapped) |->
                                [v |-> mapped[k], k |-> 0 - mapped[k].transactionCount]])
    IN slice(sorted, 0, TopLimit)

InitTop ==
    /\ ComponentInit
    /\ fpc = "ready" /\ arg \in TopInputs /\ ret = <<>>

TopRecipientAccountsCall ==
    /\ fpc = "ready"
    /\ fpc' = "done" /\ ret' = topRecipientAccountsData(arg)
    /\ UNCHANGED <<arg, cvars>>

NextTop == TopRecipientAccountsCall

SpecTop == InitTop /\ [][NextTop]_vars

\* ---------------------------------------------------------------- bank usage
MaxBanks == 3

\* Texts are sequences of characters; a Thai character is written as the
\* name of its letter ("th-ko" for U+0E01, "th-tho" for U+0E17, "th-tho2"
\* for U+0E18).
UpperCase == <<"A", "B", "C", "D", "E", "F", "G", "H", "I", "J", "K", "L", "M", "N", "O", "P", "Q", "R", "S", "T", "U", "V", "W", "X", "Y", "Z">>
LowerCase == <<"a", "b", "c", "d", "e", "f", "g", "h", "i", "j", "k", "l", "m", "n", "o", "p", "q", "r", "s", "t", "u", "v", "w", "x", "y", "z">>
WhiteSpace == {" ", "\t", LF}

\* String.prototype.toLowerCase: Thai has no case
toLowerCase(str) ==
    [k \in 1..Len(str) |->
        IF \E u \in 1..Len(UpperCase) : UpperCase[u] = str[k]
        THEN LowerCase[CHOOSE u \in 1..Len(UpperCase) : UpperCase[u] = str[k]]
        ELSE str[k]]

\* String.prototype.trim
trim(str) ==
    LET inked == {k \in 1..Len(str) : str[k] \notin WhiteSpace} IN
    IF inked = {} THEN <<>>
    ELSE SubSeq(str, CHOOSE k \in inked : \A l \in inked : k <= l,
                     CHOOSE k \in inked : \A l \in inked : l <= k)

\* String.prototype.includes
includes(str, sub) ==
    \E k \in 0..(Len(str) - Len(sub)) : SubSeq(str, k + 1, k + Len(sub)) = sub

\* the string literals of lines 622-627
Krungsri == <<"k", "r", "u", "n", "g", "s", "r", "i">>
Kasikorn == <<"k", "a", "s", "i", "k", "o", "r", "n">>
Scb == <<"s", "c", "b">>
ThaiKasikorn == <<"th-ko", "th-so", "th-i", "th-ko", "th-ro">>
ThaiKrungsri == <<"th-ko", "th-ro", "th-u", "th-ngo", "th-so3", "th-ro", "th-ii">>
ThaiKasikornThai == <<"th-ko", "th-so", "th-i", "th-ko", "th-ro", "th-ai", "th-tho", "th-yo">>
ThaiScb == <<"th-ai", "th-tho", "th-yo", "th-pho", "th-aa", "th-no", "th-i", "th-cho", "th-yo", "th-karan">>

\* recipient bank names as the extraction service writes them
BankNameSamples ==
    { <<"K", "R", "U", "N", "G", "S", "R", "I", " ", "B", "A", "N", "K">>,
      <<"K", "r", "u", "n", "g", "s", "r", "i">>,
      <<" ", "k", "r", "u", "n", "g", "s", "r", "i", " ">>,
      ThaiKrungsri,
      <<"th-tho2", ".", "th-ko", "th-so", "th-i", "th-ko", "th-ro", "th-ai", "th-tho", "th-yo">>,
      <<"k", "a", "s", "i", "k", "o", "r", "n", "b", "a", "n", "k">>,
      <<"K", "a", "s", "i", "k", "o", "r", "n", " ", "S", "C", "B">>,
      <<"S", "C", "B">>,
      ThaiScb,
      <<"T", "T", "B">>,
      <<"t", "t", "b">>,
      <<"t", "t", "b", " ">>,
      <<" ">> }
BankNameValues == {Absent, Text(<<>>)} \cup {Text(t) : t \in BankNameSamples}
BankInputs ==
    {[k \in 1..Len(ns) |-> ResultOf(Absent, Absent, ns[k], NaN)] : ns \in SeqsUpTo(BankNameValues, MaxBanks)}

\* the second rule tested before the first
normalizeKasikornFirst(recipientBankName) ==
    LET bank == trim(recipientBankName) IN
    IF includes(bank, ThaiKasikorn) \/ includes(toLowerCase(bank), Kasikorn) THEN ThaiKasikornThai
    ELSE IF includes(toLowerCase(bank), Krungsri) THEN ThaiKrungsri
    ELSE IF includes(toLowerCase(bank), Scb) \/ includes(bank, ThaiScb) THEN ThaiScb
    ELSE bank

\* lines 619-628: the name under which a bank name is counted
normalizeBank(recipientBankName) ==
    LET bank == trim(recipientBankName) IN
    IF includes(toLowerCase(bank), Krungsri) THEN ThaiKrungsri
    ELSE IF includes(bank, ThaiKasikorn) \/ includes(toLowerCase(bank), Kasikorn) THEN ThaiKasikornThai
    ELSE IF includes(toLowerCase(bank), Scb) \/ includes(bank, ThaiScb) THEN ThaiScb
    ELSE bank

\* every result counted under its trimmed name, no rule applied
RECURSIVE countBanksAsWritten(_, _, _)
countBanksAsWritten(data, i, bankMap) ==
    IF i > Len(data) THEN bankMap
    ELSE IF ~truthy(data[i].data.recipientBankName) THEN countBanksAsWritten(data, i + 1, bankMap)
    ELSE LET bank == trim(data[i].data.recipientBankName.text)
             old == getProperty(bankMap, bank)
         IN countBanksAsWritten(data, i + 1, setProperty(bankMap, bank, (IF old = Null THEN 0 ELSE old) + 1))

\* lines 617-633: the forEach over extractedData from its item number i
RECURSIVE countBanks(_, _, _)
countBanks(data, i, bankMap) ==
    IF i > Len(data) THEN bankMap
    ELSE IF ~truthy(data[i].data.recipientBankName) THEN countBanks(data, i + 1, bankMap)
    ELSE LET bank == normalizeBank(data[i].data.recipientBankName.text)
             old == getProperty(bankMap, bank)
         IN countBanks(data, i + 1, setProperty(bankMap, bank, (IF old = Null THEN 0 ELSE old) + 1))

\* lines 614-644: bankUsageData
bankUsageData(data) ==
    LET bankMap == countBanks(data, 1, <<>>)
        keys == objectKeys(bankMap)
        mapped == [k \in 1..Len(keys) |-> [name |-> keys[k], value |-> getProperty(bankMap, keys[k])]]
    IN sortByKey([k \in 1..Len(mapped) |-> [v |-> mapped[k], k |-> 0 - mapped[k].value]])

InitBank ==
    /\ ComponentInit
    /\ fpc = "ready" /\ arg \in BankInputs /\ ret = <<>>

BankUsageCall ==
    /\ fpc = "ready"
    /\ fpc' = "done" /\ ret' = bankUsageData(arg)
    /\ UNCHANGED <<arg, cvars>>

NextBank == BankUsageCall

SpecBank == InitBank /\ [][NextBank]_vars

\* ---------------------------------------------------------------- bank name
\* parts of bank names: spellings that the rules know, in both cases, and
\* names that no rule knows
BankNameParts ==
    { <<>>,
      <<"k", "r", "u", "n", "g", "s", "r", "i">>,
      <<"K", "R", "U", "N", "G", "S", "R", "I">>,
      <<"K", "a", "s", "i", "k", "o", "r", "n">>,
      ThaiKasikorn,
      <<"S", "C", "B">>,
      <<"s", "c", "b">>,
      ThaiScb,
      <<"T", "T", "B">>,
      <<"t", "t", "b">> }

\* bank names: one or two parts, with or without white space around them
\* and between them
BankNameInputs ==
    {lead \o a \o mid \o b \o trail :
        a \in BankNameParts, b \in BankNameParts,
        lead \in {<<>>, <<" ">>}, mid \in {<<>>, <<" ">>}, trail \in {<<>>, <<" ", " ">>}}

InitBankName ==
    /\ ComponentInit
    /\ fpc = "ready" /\ arg \in BankNameInputs /\ ret = <<>>

NormalizeBankCall ==
    /\ fpc = "ready"
    /\ fpc' = "done" /\ ret' = normalizeBank(arg)
    /\ UNCHANGED <<arg, cvars>>

NextBankName == NormalizeBankCall

SpecBankName == InitBankName /\ [][NextBankName]_vars

\* ---------------------------------------------------------------- search
MaxSearchLen == 2
SearchChars == {"a", "A", "b"}

SearchTails ==
    { <<>>,
      <<ResultWith(<<"i", "2">>, 3, Text(<<"a", "b">>), Absent)>>,
      <<ResultWith(<<"A", "b">>, 9, Text(<<"B">>), Text(<<"B", "a">>))>> }

\* extractedData and searchQuery: a first result with one field over all
\* short texts, followed by none or one further result; every short query
SearchInputs ==
    { [extractedData |-> <<ResultWith(id, k, Text(v), Absent)>> \o tl, searchQuery |-> q] :
        id \in {<<"i", "1">>, <<"b", "A">>},
        k \in 1..Len(DataFields),
        v \in StringsUpTo(SearchChars, MaxSearchLen),
        tl \in SearchTails,
        q \in StringsUpTo(SearchChars, MaxSearchLen) }

\* the field compared as written, not lower-cased
fieldIncludesExact(field, lowerCaseQuery) ==
    field.present /\ includes(field.text, lowerCaseQuery)

\* field?.toLowerCase().includes(lowerCaseQuery)
fieldIncludes(field, lowerCaseQuery) ==
    field.present /\ includes(toLowerCase(field.text), lowerCaseQuery)

\* lines 537-550: the predicate of the filter
matchesQuery(item, lowerCaseQuery) ==
    \/ fieldIncludes(Text(item.imageId), lowerCaseQuery)
    \/ fieldIncludes(item.data.senderName, lowerCaseQuery)
    \/ fieldIncludes(item.data.recipientName, lowerCaseQuery)
    \/ fieldIncludes(item.data.amount, lowerCaseQuery)
    \/ fieldIncludes(item.data.transactionDate, lowerCaseQuery)
    \/ fieldIncludes(item.data.transactionTime, lowerCaseQuery)
    \/ fieldIncludes(item.data.transactionId, lowerCaseQuery)
    \/ fieldIncludes(item.data.senderBankName, lowerCaseQuery)
    \/ fieldIncludes(item.data.senderBankAccountNumber, lowerCaseQuery)
    \/ fieldIncludes(item.data.recipientBankName, lowerCaseQuery)
    \/ fieldIncludes(item.data.recipientBankAccountNumber, lowerCaseQuery)
    \/ fieldIncludes(item.data.country, lowerCaseQuery)

\* Array.prototype.filter with the predicate of lines 537-550
RECURSIVE filterByQuery(_, _)
filterByQuery(data, lowerCaseQuery) ==
    IF data = <<>> THEN <<>>
    ELSE (IF matchesQuery(Head(data), lowerCaseQuery) THEN <<Head(data)>> ELSE <<>>)
         \o filterByQuery(Tail(data), lowerCaseQuery)

\* lines 530-552: filteredExtractedData
filteredExtractedData(data, searchQuery) ==
    IF searchQuery = <<>> THEN data
    ELSE filterByQuery(data, toLowerCase(searchQuery))

InitSearch ==
    /\ ComponentInit
    /\ fpc = "ready" /\ arg \in SearchInputs /\ ret = <<>>

\* filter builds a new array: extractedData is left as it is
FilterCall ==
    /\ fpc = "ready"
    /\ fpc' = "done" /\ ret' = filteredExtractedData(arg.extractedData, arg.searchQuery)
    /\ UNCHANGED <<arg, cvars>>

NextSearch == FilterCall

SpecSearch == InitSearch /\ [][NextSearch]_vars

\* ================================================================ properties
\* A batch has run to its end and no other has started since: the batch
\* variables still hold the images, the existing results, the output and the
\* call counts of that run.
BatchDone == prevRun /\ bpc = "idle"

BatchIds == {bImages[i].id : i \in 1..Len(bImages)}

\* the image had a result in the existing results the batch started with
HadResult(id) == \E k \in 1..Len(bExisting) : bExisting[k].imageId = id

\* the output of the batch has a result for the image
InOutput(id) == \E k \in 1..Len(updatedExtractedData) : updatedExtractedData[k].imageId = id

\* position of the image in the input of the batch
PosInBatch(id) == CHOOSE i \in 1..Len(bImages) : bImages[i].id = id

\* the processing of the image failed in this batch
Failed(id) == imgOutcome[id] \in Failures \cup {"writeFail"}

RECURSIVE SumOver(_, _)
SumOver(f, S) == IF S = {} THEN 0 ELSE LET x == CHOOSE y \in S : TRUE IN f[x] + SumOver(f, S \ {x})

\* ---------------------------------------------------------------- C1
\* C1: at the end of a batch the extraction service has been called exactly
\* once for every image of the batch without existing result and not at all
\* for every image with one, whose existing result is in the output unchanged.
C1_OneCallPerNewImage ==
    BatchDone =>
        /\ \A id \in BatchIds :
            IF HadResult(id)
            THEN /\ fetchCount[id] = 0
                 /\ \A k \in 1..Len(bExisting) : bExisting[k].imageId = id =>
                        \E j \in 1..Len(updatedExtractedData) :
                            updatedExtractedData[j] = bExisting[k]
            ELSE fetchCount[id] = 1
        /\ \A id \in Ids \ BatchIds : fetchCount[id] = 0

\* a finished batch over two images, one carried forward and one extracted
C1_Witness ==
    /\ BatchDone /\ Len(bImages) = 2
    /\ \E a, b \in BatchIds :
        /\ HadResult(a) /\ fetchCount[a] = 0 /\ InOutput(a)
        /\ ~HadResult(b) /\ fetchCount[b] = 1

\* ---------------------------------------------------------------- C2
\* C2 as stated: a batch run on the images and the output of the previous
\* batch calls the extraction service for no image.
C2_RerunCallsNothing ==
    (BatchDone /\ seeded) => \A id \in Ids : fetchCount[id] = 0

\* C2 amended: a batch run on the images and the output of the previous batch
\* calls the extraction service once for every image the previous batch left
\* without result (its extraction or its write failed) and for no other, so
\* the number of calls is the number of images minus the number of results
\* of the first run; it is zero when the first run gave every image a result.
C2_RerunFillsGaps ==
    (BatchDone /\ seeded) =>
        /\ SumOver(fetchCount, Ids) = Len(bImages) - Len(bExisting)
        /\ \A id \in Ids : fetchCount[id] > 0 => (id \in BatchIds /\ ~HadResult(id))

\* a finished second run over two images that both had a result from the first
C2_Witness ==
    /\ BatchDone /\ seeded /\ Len(bImages) = 2 /\ Len(bExisting) = 2
    /\ \A id \in Ids : fetchCount[id] = 0

\* ---------------------------------------------------------------- C3
\* the image was dedup-checked and, without existing result, submitted
Processed(id) == IF HadResult(id) THEN InOutput(id) ELSE fetchCount[id] >= 1 /\ imgOutcome[id] # "none"

\* C3: at the end of a batch, every image that comes after an image whose
\* processing failed (transport, missing payload, JSON syntax, store write)
\* has been processed all the same.
C3_FailureDoesNotAbort ==
    BatchDone =>
        \A a, b \in BatchIds :
            (Failed(a) /\ PosInBatch(a) < PosInBatch(b)) => Processed(b)

\* a finished batch whose first image failed and whose second was extracted
C3_Witness ==
    /\ BatchDone /\ Len(bImages) = 2
    /\ Failed(bImages[1].id)
    /\ fetchCount[bImages[2].id] = 1 /\ InOutput(bImages[2].id)

\* ---------------------------------------------------------------- C4
\* C4: at the end of a batch, every image whose write-back failed after a
\* successful extraction has its result in the output of the batch.
C4_WriteFailureKeepsResult ==
    BatchDone => \A id \in BatchIds : imgOutcome[id] = "writeFail" => InOutput(id)

\* ---------------------------------------------------------------- C5
AssetExists(id) == store[id].exists /\ store[id].asset

\* no handler is in flight and no change notification is undelivered
AtRest == bpc = "idle" /\ ipc = "idle" /\ rpc = "idle" /\ ~snapPending

\* C5: every extraction result in the store belongs to a document that is an
\* image asset, and every result of the in-memory sequence refers to an image
\* asset of the store (required here only when the program is at rest, which
\* is the reading most favourable to the code).
C5_ResultsReferToAssets ==
    /\ \A id \in Ids : (store[id].exists /\ store[id].extractedData # Null) => store[id].asset
    /\ AtRest => \A k \in 1..Len(extractedData) : AssetExists(extractedData[k].imageId)

\* ---------------------------------------------------------------- C6
\* C6: the output of a batch lists the results in the order of the images.
C6_OutputInInputOrder ==
    BatchDone =>
        /\ \A k \in 1..Len(updatedExtractedData) : updatedExtractedData[k].imageId \in BatchIds
        /\ \A k, l \in 1..Len(updatedExtractedData) :
            k < l => PosInBatch(updatedExtractedData[k].imageId)
                        < PosInBatch(updatedExtractedData[l].imageId)

\* a finished batch whose output holds an extracted result and a carried one
C6_Witness ==
    /\ BatchDone /\ Len(updatedExtractedData) = 2
    /\ \E k, l \in 1..2 :
        /\ HadResult(updatedExtractedData[k].imageId)
        /\ ~HadResult(updatedExtractedData[l].imageId)

\* ---------------------------------------------------------------- C7
\* C7: at the end of a batch, the store has been written once for every image
\* without existing result whose extraction brought a parsable payload, and
\* not at all for any other image.
C7_OneWritePerNewResult ==
    BatchDone =>
        \A id \in Ids :
            writeCount[id] =
                IF id \in BatchIds /\ ~HadResult(id) /\ imgOutcome[id] \in {"ok", "writeFail"}
                THEN 1 ELSE 0

\* a finished batch with one image written and one skipped by the dedup check
C7_Witness ==
    /\ BatchDone
    /\ \E a, b \in BatchIds :
        /\ HadResult(a) /\ writeCount[a] = 0
        /\ ~HadResult(b) /\ writeCount[b] = 1 /\ store[b].extractedData # Null

\* ---------------------------------------------------------------- C8
\* C8: while the store handle or the caller identity is missing, no step
\* starts a batch or an ingestion run, calls the extraction service or writes
\* the store, and a call of processFiles sets the pre-flight error message;
\* an ingestion run that started ends only when no image file is left, and a
\* batch that started ends only when no image without result is left.
C8_PreflightAborts ==
    /\ [][(~db \/ ~userId) =>
            /\ store' = store /\ fetchCount' = fetchCount /\ writeCount' = writeCount
            /\ bpc' = "idle" /\ ipc' = "idle"
            /\ (ipc = "idle" /\ error' # error) => error' \in {ErrPreflight, ErrInit}]_vars
       /\ [][(ipc # "idle" /\ ipc' = "idle") =>
                \A i \in (fIdx + 1)..Len(files) : files[i] # "image"]_vars
       /\ [][(bpc # "idle" /\ bpc' = "idle") =>
                \A i \in (bIdx + 1)..Len(bImages) : HadResult(bImages[i].id)]_vars

\* processFiles was called before the caller identity was established: the
\* error is set and nothing was stored
C8_Witness ==
    /\ error = ErrPreflight /\ ~userId
    /\ ipc = "idle" /\ \A id \in Ids : ~store[id].exists

\* ---------------------------------------------------------------- C9
\* C9: when the extraction call of an image fails at the network or HTTP
\* layer (the request is rejected, or the response has a non-success status),
\* the error set for that image is the transport error and the image gets no
\* result.
C9_TransportErrorKind ==
    [][(bpc = "fetch" /\ imgOutcome'[bImages[bIdx].id] \in {"network", "status"}) =>
            /\ error' = ErrApi
            /\ \A k \in 1..Len(updatedExtractedData') :
                    updatedExtractedData'[k].imageId # bImages[bIdx].id]_vars

\* ---------------------------------------------------------------- C10
NoDuplicateIds(data) ==
    \A k, l \in 1..Len(data) : data[k].imageId = data[l].imageId => k = l

\* C10: no image id occurs twice in the in-memory result sequence.
C10_OneResultPerImage == NoDuplicateIds(extractedData)

\* the result sequence holds two results, published by a batch that carried
\* one forward and extracted the other
C10_Witness ==
    /\ BatchDone /\ Len(extractedData) = 2 /\ extractedData = updatedExtractedData
    /\ \E k \in 1..2 : HadResult(extractedData[k].imageId)


\* ---------------------------------------------------------------- C11
\* C11: no step changes the extraction result of a stored image that has one
\* and is still stored after the step, and a result the in-memory sequence
\* holds for a stored image that has a result is that result.
C11_ResultNeverOverwritten ==
    /\ [][\A id \in Ids :
            (AssetExists(id) /\ store[id].extractedData # Null /\ store'[id].exists /\ store'[id].asset)
                => store'[id].extractedData = store[id].extractedData]_vars
    /\ [](\A k \in 1..Len(extractedData) :
            LET id == extractedData[k].imageId IN
            (AssetExists(id) /\ store[id].extractedData # Null)
                => extractedData[k].data = store[id].extractedData)

\* a batch has run over a stored image that had a result, and the store
\* still holds that result
C11_Witness ==
    /\ BatchDone
    /\ \E k \in 1..Len(bExisting) :
        LET id == bExisting[k].imageId IN
        /\ id \in BatchIds /\ AssetExists(id)
        /\ store[id].extractedData = bExisting[k].data

\* ---------------------------------------------------------------- C12
\* C12: the in-memory image sequence is sorted by timestamp ascending, and
\* the in-memory result sequence is sorted by the timestamp of its images
\* (compared for the results whose image is stored, the store being where
\* the timestamp of an image is kept).
C12_SortedByCreation ==
    /\ \A i, j \in 1..Len(selectedImages) :
        i < j => selectedImages[i].timestamp <= selectedImages[j].timestamp
    /\ \A k, l \in 1..Len(extractedData) :
        (k < l /\ AssetExists(extractedData[k].imageId) /\ AssetExists(extractedData[l].imageId))
            => store[extractedData[k].imageId].timestamp <= store[extractedData[l].imageId].timestamp

\* two images and their two results are in memory, and the older image has
\* the greater document id, so that the snapshot lists it last
C12_Witness ==
    /\ Len(selectedImages) = 2 /\ selectedImages[1].id > selectedImages[2].id
    /\ Len(extractedData) = 2 /\ extractedData[1].imageId > extractedData[2].imageId
    /\ AssetExists(extractedData[1].imageId) /\ AssetExists(extractedData[2].imageId)

\* ---------------------------------------------------------------- C13
\* C13: when an ingestion run ends in which a file was skipped or a write
\* failed, and when a batch ends in which the processing of an image failed,
\* an error message is set.
C13_ErrorVisibleAtEnd ==
    /\ [][(ipc # "idle" /\ ipc' = "idle" /\ (hasError \/ ipc = "write")) => error' # NoError]_vars
    /\ [][(bpc # "idle" /\ bpc' = "idle" /\ \E id \in BatchIds : Failed(id)') => error' # NoError]_vars


\* ---------------------------------------------------------------- C14
\* C14: the parsedAmount computed from an amount string is a number greater
\* than or equal to 0.
C14_AmountNotNegative ==
    (fpc = "done" /\ arg.kind = "string")
        => (~ret.threw /\ ~ret.nan /\ (ret.scaled = 0 \/ ~ret.neg))

\* ---------------------------------------------------------------- C15
\* the text is a decimal number as a whole: "-"? digits ("." digits?)? or
\* "-"? "." digits
IsDecimalText(str) ==
    \E neg \in {0, 1}, n, m \in 0..Len(str), dot \in {0, 1} :
        /\ neg + n + dot + m = Len(str)
        /\ n + m > 0 /\ (dot = 0 => m = 0)
        /\ neg = 1 => str[1] = "-"
        /\ \A k \in (neg + 1)..(neg + n) : str[k] \in DecimalDigits
        /\ dot = 1 => str[neg + n + 1] = "."
        /\ \A k \in (neg + n + dot + 1)..Len(str) : str[k] \in DecimalDigits

\* the value of a decimal text, signed, in units of 10^-FractionDigits
DecimalTextValue(str) ==
    LET neg == str[1] = "-"
        body == IF neg THEN Tail(str) ELSE str
        dots == {k \in 1..Len(body) : body[k] = "."}
        p == IF dots = {} THEN Len(body) + 1 ELSE CHOOSE k \in dots : TRUE
        whole == digitsValue(body, 1, p - 1) * Pow10(FractionDigits)
        part == IF p >= Len(body) THEN 0
                ELSE digitsValue(body, p + 1, Len(body) - p) * Pow10(FractionDigits - (Len(body) - p))
    IN (IF neg THEN -1 ELSE 1) * (whole + part)

SignedValue(r) == IF r.neg THEN 0 - r.scaled ELSE r.scaled

\* C15: amount parsing does not fail and does not yield NaN; the result is
\* the decimal value of the text left after removing the characters that are
\* not a digit, "." or "-", and 0 when that text is empty or not a decimal
\* number.
C15_AmountIsRemainderOrZero ==
    fpc = "done" =>
        LET rem == IF arg.kind = "string" THEN keepChars(arg.text, AmountClass) ELSE <<>> IN
        /\ ~ret.threw /\ ~ret.nan
        /\ SignedValue(ret) = IF IsDecimalText(rem) THEN DecimalTextValue(rem) ELSE 0


\* ---------------------------------------------------------------- C16
\* a CSV reader (RFC 4180): fields are separated by commas and records by
\* line breaks; a field that starts with a quote runs to its closing quote,
\* two quotes inside it standing for one
RECURSIVE readQuoted(_, _, _)
readQuoted(text, i, field) ==
    IF i > Len(text) THEN [field |-> field, next |-> i]
    ELSE IF text[i] # DQ THEN readQuoted(text, i + 1, Append(field, text[i]))
    ELSE IF i < Len(text) /\ text[i + 1] = DQ THEN readQuoted(text, i + 2, Append(field, DQ))
    ELSE [field |-> field, next |-> i + 1]

RECURSIVE readPlain(_, _, _)
readPlain(text, i, field) ==
    IF i > Len(text) \/ text[i] \in {",", LF} THEN [field |-> field, next |-> i]
    ELSE readPlain(text, i + 1, Append(field, text[i]))

readField(text, i) ==
    IF i <= Len(text) /\ text[i] = DQ THEN readQuoted(text, i + 1, <<>>)
    ELSE readPlain(text, i, <<>>)

RECURSIVE csvRead(_, _, _, _)
csvRead(text, i, row, rows) ==
    LET r == readField(text, i)
        fields == Append(row, r.field)
    IN IF r.next > Len(text) THEN Append(rows, fields)
       ELSE IF text[r.next] = "," THEN csvRead(text, r.next + 1, fields, rows)
       ELSE csvRead(text, r.next + 1, <<>>, Append(rows, fields))

\* the thirteen values of a result: image id, viewer URL, the eleven fields
\* (an absent field is the empty text)
ValuesOf(item) ==
    <<item.imageId, viewImageUrl(item.imageId)>>
    \o [k \in 1..Len(DataFields) |-> item.data[DataFields[k]].text]

\* C16: the data rows read from the output of generateCsv are, in input
\* order, the thirteen values of each result.
C16_CsvRoundTrip ==
    fpc = "done" =>
        LET rows == Tail(csvRead(ret, 1, <<>>, <<>>)) IN
        /\ Len(rows) = Len(arg)
        /\ \A k \in 1..Len(arg) : Len(rows[k]) = Len(headers) /\ rows[k] = ValuesOf(arg[k])

\* two results were exported, one with a field made of a quote and a comma
\* and one with a field that is a line break
C16_Witness ==
    /\ fpc = "done" /\ Len(arg) = 2
    /\ \E f \in DataFieldSet : arg[1].data[f] = Text(<<DQ, ",">>)
    /\ \E f \in DataFieldSet : arg[2].data[f] = Text(<<LF>>)


\* ---------------------------------------------------------------- C17
\* the positions of the results of data whose date is the text d
WithDate(data, d) ==
    {k \in 1..Len(data) : data[k].data.transactionDate = Text(d)}

FirstWithDate(data, d) ==
    CHOOSE k \in WithDate(data, d) : \A l \in WithDate(data, d) : k <= l

\* one entry per distinct non-empty date, with the number of results of that
\* date; results without date are in no entry
DailyCounts ==
    /\ \A k \in 1..Len(arg) :
        truthy(arg[k].data.transactionDate)
            <=> \E e \in 1..Len(ret) : ret[e].date = arg[k].data.transactionDate.text
    /\ \A e \in 1..Len(ret) :
        /\ ret[e].date # <<>>
        /\ ret[e].count = Cardinality(WithDate(arg, ret[e].date))
        /\ ret[e].count > 0
        /\ \A f \in 1..Len(ret) : ret[f].date = ret[e].date => f = e

DailySortedByCount ==
    \A e, f \in 1..Len(ret) : e < f => ret[e].count >= ret[f].count

DailyTiesInInputOrder ==
    \A e, f \in 1..Len(ret) :
        (e < f /\ ret[e].count = ret[f].count)
            => FirstWithDate(arg, ret[e].date) < FirstWithDate(arg, ret[f].date)

\* C17: dailyFrequency returns one entry per distinct non-empty date with the
\* number of results of that date, sorted by count descending, entries of
\* equal count in the order in which their dates first occur in the input.
C17_DailyFrequency ==
    fpc = "done" => (DailyCounts /\ DailySortedByCount /\ DailyTiesInInputOrder)


\* ---------------------------------------------------------------- C18
\* the positions of the results of data whose account number is the text a
WithAccount(data, a) ==
    {k \in 1..Len(data) : data[k].data.recipientBankAccountNumber = Text(a)}

\* the account numbers of data
AccountsOf(data) ==
    {data[k].data.recipientBankAccountNumber.text :
        k \in {l \in 1..Len(data) : truthy(data[l].data.recipientBankAccountNumber)}}

Returned == {ret[e].accountNumber : e \in 1..Len(ret)}

\* C18: topRecipientAccounts returns at most TopLimit entries, sorted by
\* transactionCount descending, and no account left out has more
\* transactions than an account returned.
C18_TopIsBounded ==
    fpc = "done" =>
        /\ Len(ret) <= TopLimit
        /\ \A e, f \in 1..Len(ret) : e < f => ret[e].transactionCount >= ret[f].transactionCount
        /\ \A a \in AccountsOf(arg) \ Returned : \A e \in 1..Len(ret) :
            Cardinality(WithAccount(arg, a)) <= ret[e].transactionCount

\* more accounts than the limit, of different counts, some left out while
\* an account with fewer transactions than another is returned
C18_Witness ==
    /\ fpc = "done" /\ Cardinality(AccountsOf(arg)) > TopLimit
    /\ Len(ret) = TopLimit
    /\ ret[1].transactionCount > ret[TopLimit].transactionCount
    /\ \E a \in AccountsOf(arg) \ Returned :
        Cardinality(WithAccount(arg, a)) < ret[1].transactionCount

\* ---------------------------------------------------------------- C19
\* what a result adds to the total of its account: its parsedAmount, a
\* parsedAmount that is NaN adding nothing
AmountAdded(item) ==
    IF item.data.parsedAmount.nan THEN 0 ELSE SignedValue(item.data.parsedAmount)

RECURSIVE SumAdded(_, _)
SumAdded(data, S) ==
    IF S = {} THEN 0
    ELSE LET k == CHOOSE l \in S : TRUE IN AmountAdded(data[k]) + SumAdded(data, S \ {k})

\* the positions of the results of account a that have a non-empty bank name
Named(data, a) ==
    {k \in WithAccount(data, a) : truthy(data[k].data.recipientBankName)}

NamedResults == {k \in 1..Len(arg) : truthy(arg[k].data.recipientBankName)}

BankNameAt(k) == arg[k].data.recipientBankName.text

\* the first rule that the name matches without regard to case, 0 for none
RuleOf(name) ==
    LET lower == toLowerCase(trim(name)) IN
    IF includes(lower, Krungsri) THEN 1
    ELSE IF includes(trim(name), ThaiKasikorn) \/ includes(lower, Kasikorn) THEN 2
    ELSE IF includes(lower, Scb) \/ includes(trim(name), ThaiScb) THEN 3
    ELSE 0

RuleLabels == <<ThaiKrungsri, ThaiKasikornThai, ThaiScb>>

\* the name of the entry a bank name belongs to: the label of its rule, or
\* the name trimmed when no rule matches
EntryName(name) == IF RuleOf(name) = 0 THEN trim(name) ELSE RuleLabels[RuleOf(name)]

RECURSIVE SumValues(_, _)
SumValues(entries, n) == IF n = 0 THEN 0 ELSE entries[n].value + SumValues(entries, n - 1)

\* the counts add up to the number of results that have a bank name, and
\* the entries are sorted by count descending
BankTotalAndOrder ==
    /\ SumValues(ret, Len(ret)) = Cardinality(NamedResults)
    /\ \A e, f \in 1..Len(ret) : e < f => ret[e].value >= ret[f].value

\* C20 as stated: names that differ only in case or surrounding white space
\* fall in the same entry, so that no two entries have names equal up to
\* case; the counts add up and the entries are sorted.
C20_CaseVariantsShareEntry ==
    fpc = "done" =>
        /\ BankTotalAndOrder
        /\ \A e, f \in 1..Len(ret) :
            toLowerCase(ret[e].name) = toLowerCase(ret[f].name) => e = f

\* C20 amended: the entries are the labels of the rules matched and the
\* trimmed names that match no rule, each once, with the number of results
\* that belong to it: names matching the same rule share an entry, names
\* matching no rule share one when their trimmed texts are equal; the counts
\* add up to the number of results with a non-empty bank name and the
\* entries are sorted by count descending.
C20_BankUsageByRule ==
    fpc = "done" =>
        /\ BankTotalAndOrder
        /\ {ret[e].name : e \in 1..Len(ret)} = {EntryName(BankNameAt(k)) : k \in NamedResults}
        /\ \A e, f \in 1..Len(ret) : ret[e].name = ret[f].name => e = f
        /\ \A e \in 1..Len(ret) :
            ret[e].value = Cardinality({k \in NamedResults : EntryName(BankNameAt(k)) = ret[e].name})

\* two spellings of one bank and a name that matches no rule: two entries,
\* the first with count 2
C20_Witness ==
    /\ fpc = "done" /\ Len(arg) = 3 /\ NamedResults = {1, 2, 3}
    /\ RuleOf(BankNameAt(1)) = 1 /\ RuleOf(BankNameAt(2)) = 1 /\ BankNameAt(1) # BankNameAt(2)
    /\ RuleOf(BankNameAt(3)) = 0
    /\ Len(ret) = 2 /\ ret[1] = [name |-> ThaiKrungsri, value |-> 2]


\* ---------------------------------------------------------------- C21
\* c and d are the same letter up to case
SameLetter(c, d) ==
    c = d \/ \E u \in 1..Len(UpperCase) : {c, d} = {UpperCase[u], LowerCase[u]}

\* str contains pat, case disregarded
ContainsIgnoringCase(str, pat) ==
    \E k \in 0..(Len(str) - Len(pat)) : \A j \in 1..Len(pat) : SameLetter(str[k + j], pat[j])

\* t is str without the white space at its two ends
IsTrimOf(t, str) ==
    \E a, b \in 0..Len(str) :
        /\ a + Len(t) + b = Len(str)
        /\ \A k \in 1..a : str[k] \in WhiteSpace
        /\ \A k \in 1..Len(t) : str[a + k] = t[k]
        /\ \A k \in (a + Len(t) + 1)..Len(str) : str[k] \in WhiteSpace
        /\ t # <<>> => (t[1] \notin WhiteSpace /\ t[Len(t)] \notin WhiteSpace)

\* the rules in their order: the patterns of a rule and its canonical name
CanonicalRules ==
    << [patterns |-> {Krungsri}, name |-> ThaiKrungsri],
       [patterns |-> {ThaiKasikorn, Kasikorn}, name |-> ThaiKasikornThai],
       [patterns |-> {Scb, ThaiScb}, name |-> ThaiScb] >>

MatchingRules(str) ==
    {r \in 1..Len(CanonicalRules) : \E p \in CanonicalRules[r].patterns : ContainsIgnoringCase(str, p)}

\* C21: the canonical name of a bank name is the name of the first rule one
\* of whose patterns the name contains, case disregarded, and the name
\* without the white space at its ends when no rule matches.
C21_FirstRuleDecides ==
    fpc = "done" =>
        LET matching == MatchingRules(arg) IN
        IF matching = {} THEN IsTrimOf(ret, arg)
        ELSE ret = CanonicalRules[CHOOSE r \in matching : \A q \in matching : r <= q].name

\* a name that starts with white space, names the bank of the second rule
\* first and the bank of the first rule after it in upper case: its
\* canonical name is that of the first rule
C21_Witness ==
    /\ fpc = "done" /\ {1, 2} \subseteq MatchingRules(arg)
    /\ arg[1] = " " /\ arg[2] = "K" /\ arg[3] = "a"
    /\ ~includes(arg, Krungsri)
    /\ ret = ThaiKrungsri


\* ---------------------------------------------------------------- C22
\* one of the twelve string fields of the result contains the query, case
\* disregarded
SomeFieldContains(item, query) ==
    \/ ContainsIgnoringCase(item.imageId, query)
    \/ \E f \in DataFieldSet : item.data[f].present /\ ContainsIgnoringCase(item.data[f].text, query)

\* C22: the filter returns, in input order, the results of which a string
\* field contains the query, case disregarded; all of them when the query is
\* empty; the call leaves its input as it is.
C22_FilterBySearch ==
    /\ [](fpc = "done" =>
            /\ ret = SelectSeq(arg.extractedData, LAMBDA item : SomeFieldContains(item, arg.searchQuery))
            /\ arg.searchQuery = <<>> => ret = arg.extractedData)
    /\ [][arg' = arg]_vars

\* a query with an upper-case letter, two results: the first is dropped, the
\* second is kept for a field that has the query's letters in another case
C22_Witness ==
    /\ fpc = "done" /\ Len(arg.extractedData) = 2 /\ ret = <<arg.extractedData[2]>>
    /\ arg.searchQuery = <<"b", "A">>
    /\ ~includes(ret[1].imageId, arg.searchQuery)
    /\ \A f \in DataFieldSet : ~includes(ret[1].data[f].text, arg.searchQuery)


\* ---------------------------------------------------------------- C23
\* the step issues the extraction call for the image
IssuesFetch(id) ==
    /\ fetchCount'[id] > 0
    /\ IF bpc = "idle" THEN bpc' # "idle" \/ fetchCount' # fetchCount
       ELSE fetchCount'[id] > fetchCount[id]

\* the step issues the store write of the result of the image
IssuesWrite(id) == bpc # "idle" /\ writeCount'[id] > writeCount[id]

\* the batch is through with the image: it had a result, or its call or its
\* write failed, or its write resolved and its result is accumulated
Settled(id) ==
    HadResult(id) \/ Failed(id) \/ (imgOutcome[id] = "ok" /\ InOutput(id))

\* extraction calls issued in this batch and not yet come back
PendingFetches ==
    SumOver(fetchCount, Ids) - Cardinality({id \in Ids : imgOutcome[id] # "none"})

\* C23: within a batch the extraction call for an image is issued only when
\* every earlier image is settled and for no later image a call was issued;
\* the store write of an image is issued only while the results accumulated
\* are those of earlier images, and only it changes a stored result; at most
\* one extraction call is pending; the results accumulated are in the order
\* of the images, which is the order of the writes.
C23_OneImageAtATime ==
    /\ [][\A id \in Ids : IssuesFetch(id) =>
            /\ bpc' = "fetch" /\ bImages'[bIdx'].id = id
            /\ \A j \in 1..(bIdx' - 1) : Settled(bImages[j].id)'
            /\ \A j \in (bIdx' + 1)..Len(bImages') : fetchCount'[bImages'[j].id] = 0]_vars
    /\ [][\A id \in Ids : IssuesWrite(id) =>
            /\ bpc = "fetch" /\ bpc' = "write" /\ bImages[bIdx].id = id
            /\ \A k \in 1..Len(updatedExtractedData) :
                PosInBatch(updatedExtractedData[k].imageId) < bIdx
            /\ \A j \in (bIdx + 1)..Len(bImages) : writeCount[bImages[j].id] = 0]_vars
    /\ [][\A id \in Ids :
            (store'[id].extractedData # store[id].extractedData /\ store'[id].extractedData # Null)
                => (bpc = "write" /\ bpc' = "delay" /\ bImages[bIdx].id = id)]_vars
    /\ [](PendingFetches = IF bpc = "fetch" THEN 1 ELSE 0)
    /\ [](\A k, l \in 1..Len(updatedExtractedData) :
            k < l => PosInBatch(updatedExtractedData[k].imageId)
                       < PosInBatch(updatedExtractedData[l].imageId))

\* the call for the second image is pending after the call and the write of
\* the first have resolved and its result is accumulated
C23_Witness ==
    /\ bpc = "fetch" /\ bIdx = 2 /\ Len(bImages) = 2
    /\ imgOutcome[bImages[1].id] = "ok" /\ writeCount[bImages[1].id] = 1
    /\ Len(updatedExtractedData) = 1 /\ updatedExtractedData[1].imageId = bImages[1].id
    /\ fetchCount[bImages[2].id] = 1


\* ---------------------------------------------------------------- C24
\* C24: a batch that has started completes: the processing flag is false
\* again and the batch has ended; the step that ends a batch publishes the
\* accumulated results and clears the flag, whatever failed on the way.
C24_BatchCompletes ==
    /\ (bpc # "idle") ~> (bpc = "idle" /\ prevRun /\ ~loading)
    /\ [][(bpc # "idle" /\ bpc' = "idle") =>
            (extractedData' = updatedExtractedData' /\ ~loading' /\ prevRun')]_vars

\* a batch over two images has completed although the call for the first
\* and the write for the second failed
C24_Witness ==
    /\ BatchDone /\ ~loading /\ Len(bImages) = 2
    /\ imgOutcome[bImages[1].id] \in Failures /\ imgOutcome[bImages[2].id] = "writeFail"
    /\ extractedData = updatedExtractedData


\* ---------------------------------------------------------------- C25
\* C25: the store write of an extraction result leaves the image payload and
\* the timestamp of the document of the image as they are, sets its
\* extraction result, and changes no other document.
C25_WriteMerges ==
    [][(bpc = "write" /\ bpc' = "delay") =>
        LET id == bImages[bIdx].id IN
        /\ store'[id].exists
        /\ store'[id].asset = store[id].asset
        /\ store'[id].timestamp = store[id].timestamp
        /\ store'[id].extractedData = bExtracted
        /\ \A other \in Ids \ {id} : store'[other] = store[other]]_vars

\* the result of an image has been written into its document, which still
\* is an asset with its timestamp, next to another asset without result
C25_Witness ==
    /\ bpc = "delay"
    /\ AssetExists(bImages[bIdx].id) /\ store[bImages[bIdx].id].timestamp > 0
    /\ store[bImages[bIdx].id].extractedData = bExtracted
    /\ \E other \in Ids \ {bImages[bIdx].id} :
        AssetExists(other) /\ store[other].extractedData = Null


\* ---------------------------------------------------------------- C26
ImagesAfter(fs, i) == Cardinality({j \in (i + 1)..Len(fs) : fs[j] = "image"})

\* C26: in an ingestion run a file that is not an image causes no store
\* write, and a setDoc is issued for every image file of the run, before or
\* after it: the write in flight is always that of an image file, the image
\* files without a write so far are exactly those behind the current one, and
\* none is left when the run has ended. A write that resolves stores a new
\* document under an id that no document and no image in memory has, with the
\* image, a timestamp and no extraction result, and changes no other
\* document; every other step of the run leaves the store as it is.
C26_NonImageSkipped ==
    /\ [](ipc = "idle" => imagesLeft = 0)
    /\ [](ipc # "idle" => (files[fIdx] = "image" /\ imagesLeft = ImagesAfter(files, fIdx)))
    /\ [][(ivars' # ivars /\ ~(ipc = "write" /\ ipc' = "delay")) => store' = store]_vars
    /\ [][(ipc = "write" /\ ipc' = "delay") =>
            /\ ~store[uniqueId].exists /\ ~InSelected(uniqueId)
            /\ store'[uniqueId] = [exists |-> TRUE, asset |-> TRUE,
                                   timestamp |-> clock, extractedData |-> Null]
            /\ \A other \in Ids \ {uniqueId} : store'[other] = store[other]]_vars

\* the first file of the run was not an image, the second was and is stored
\* without a result; no image file of the run is left
C26_Witness ==
    /\ ipc = "delay" /\ Len(files) = 2 /\ fIdx = 2
    /\ files[1] # "image" /\ files[2] = "image"
    /\ error = ErrNotImage /\ imagesLeft = 0
    /\ AssetExists(uniqueId) /\ store[uniqueId].extractedData = Null


\* ---------------------------------------------------------------- C27
ItemsOf(data) == {data[k] : k \in 1..Len(data)}

\* C27: once a batch has completed, no operation is in flight and every
\* change of the store has been delivered to the listener, the in-memory
\* result sequence holds exactly the results of the documents of the store
\* that are image assets with an extraction result.
C27_MemoryConvergesToStore ==
    (BatchDone /\ AtRest) =>
        /\ ItemsOf(extractedData) = ItemsOf(loadedData(store))
        /\ NoDuplicateIds(extractedData)


\* ---------------------------------------------------------------- C28
\* C28: while the export preview is shown, and with it the download button
\* of the modal, its content is the export document generated from the
\* in-memory result sequence as it is now.
C28_PreviewIsCurrent ==
    showCsvPreview => csvContentForPreview = generateCsv(extractedData)


\* ---------------------------------------------------------------- C29
\* C29: once the reset button was pressed, its bulk delete and every
\* operation that was in flight at that moment have completed, no operation
\* was started since and every change of the store has been delivered, the
\* store holds no document and the in-memory image and result sequences are
\* empty.
C29_ClearEmptiesEverything ==
    (cleared /\ AtRest) =>
        /\ \A id \in Ids : ~store[id].exists
        /\ selectedImages = <<>>
        /\ extractedData = <<>>


\* ---------------------------------------------------------------- C30
\* C30: at most one batch is in flight: loading is true exactly while a
\* batch is running, the process button is disabled while loading is true,
\* and while a batch is running no step replaces the images and results it
\* started from or starts its loop again.
C30_OneBatchAtATime ==
    /\ [](loading <=> bpc # "idle")
    /\ [](loading => ~ProcessEnabled)
    /\ [][bpc # "idle" =>
            /\ bImages' = bImages /\ bExisting' = bExisting
            /\ bIdx' >= bIdx
            /\ loading' = (bpc' # "idle")]_vars

\* a batch is waiting for its extraction call; the images are there and the
\* caller is known, so that only loading keeps the button disabled
C30_Witness ==
    /\ bpc = "fetch" /\ loading
    /\ Len(selectedImages) > 0 /\ isAuthReady
    /\ ~ProcessEnabled

====
